---- MODULE Spec2Model ----
(***************************************************************************)
(* A model of the CTFtime write-up spider (src/spider/app/spider.py).      *)
(*                                                                         *)
(* Python strings are sequences of one-character strings, so that split,   *)
(* strip, replace and endswith are computed as Python computes them.       *)
(* A value that may be None is a record [none, v].  The origin site, the   *)
(* blog hosts and the network are the environment: every fetch draws its   *)
(* outcome from a small set.                                               *)
(***************************************************************************)
EXTENDS Integers, Sequences, FiniteSets, TLC

VARIABLES
    pc,         \* position of the spider process
    exc,        \* the unhandled exception that ended the process, or "none"
    indexed,    \* the database (and its text index) exists
    store,      \* the collection: the inserted documents, in insertion order
    latest,     \* latest_writeup_id
    missing,    \* the list of identifiers to crawl
    idx,        \* the loop index of the crawl loop
    run,        \* number of times the spider has been started
    calls,      \* history: identifiers given to scrape_writeup_info in this run
    last,       \* history: the last call of scrape_writeup_info and its result
    failed,     \* history: identifiers the origin answered neither 200 nor 404 for in this run
    prev,       \* history: how the previous run went
    gapStore,   \* history: the identifiers stored when the gap was computed
    nIn,        \* link normalisation alone: the blog URL given
    nUrl,       \* link normalisation alone: the URL being rewritten
    nPage,      \* link normalisation alone: the repository page it looks up
    nPc         \* link normalisation alone: position

vars == <<pc, exc, indexed, store, latest, missing, idx, run, calls, last,
          failed, prev, gapStore, nIn, nUrl, nPage, nPc>>

\* The spider's own variables, and those of link normalisation alone.
svars == <<pc, exc, indexed, store, latest, missing, idx, run, calls, last,
           failed, prev, gapStore>>

nvars == <<nIn, nUrl, nPage, nPc>>

(* ------------------------------ bounds -------------------------------- *)

MaxId == 3

MaxRuns == 2

(* ----------------------------- constants ------------------------------ *)

SizeCeiling == 2097152

GistHost ==
    <<"g","i","s","t",".","g","i","t","h","u","b",".","c","o","m">>

RepoHost ==
    <<"g","i","t","h","u","b",".","c","o","m">>

RawHost ==
    <<"r","a","w",".","g","i","t","h","u","b","u","s","e","r","c","o","n","t","e","n","t",".","c","o","m">>

MdSuffix ==
    <<".","m","d">>

TreeSeg ==
    <<"t","r","e","e">>

BlobSeg ==
    <<"b","l","o","b">>

SlashBlob ==
    <<"/","b","l","o","b">>

RawSuffix ==
    <<"/","r","a","w">>

NoneText ==
    <<"N","o","n","e">>

WriteupPath ==
    <<"/","w","r","i","t","e","u","p","/">>

CTFTIME_URL ==
    <<"h","t","t","p","s",":","/","/","c","t","f","t","i","m","e",".","o","r","g">>

UrlBlog ==
    <<"h","t","t","p","s",":","/","/","b",".","i","o","/","w","#","t","o","p">>

UrlGist ==
    <<"h","t","t","p","s",":","/","/","g","i","s","t",".","g","i","t","h","u","b",".","c","o","m","/","u","/","a","b","c","1","2","3","/">>

UrlRepo ==
    <<"h","t","t","p","s",":","/","/","g","i","t","h","u","b",".","c","o","m","/","u","/","r","e","p","o","/","t","r","e","e","/","m","a","i","n">>

UrlRepoMd ==
    <<"h","t","t","p","s",":","/","/","g","i","t","h","u","b",".","c","o","m","/","u","/","r","e","p","o","/","b","l","o","b","/","m","a","i","n","/","w",".","m","d">>

UrlRepoRaw ==
    <<"h","t","t","p","s",":","/","/","r","a","w",".","g","i","t","h","u","b","u","s","e","r","c","o","n","t","e","n","t",".","c","o","m","/","u","/","r","e","p","o","/","m","a","i","n","/","R","E","A","D","M","E",".","m","d">>

ReadmeName ==
    <<"R","E","A","D","M","E",".","m","d">>

NotesName ==
    <<"n","o","t","e","s",".","m","d">>

ScriptName ==
    <<"s","o","l","v","e",".","p","y">>
ContentLengthKey ==
    <<"C","o","n","t","e","n","t","-","L","e","n","g","t","h">>

(* --------------------------- Python values ---------------------------- *)

None == [none |-> TRUE, v |-> <<>>]

Some(x) == [none |-> FALSE, v |-> x]

\* The values get_content_length can return: None, an int, or a header's
\* string (the decimal string of v).
PyNone == [t |-> "none", v |-> 0]

PyInt(n) == [t |-> "int", v |-> n]

PyStr(n) == [t |-> "str", v |-> n]

\* A str; a chunk of a response body is bytes, and the two never compare
\* equal in Python 3.
Str(chars) == [bytes |-> FALSE, s |-> chars]

(* --------------------------- str operations --------------------------- *)

StartsAt(s, sub, i) ==
    /\ i + Len(sub) - 1 <= Len(s)
    /\ SubSeq(s, i, i + Len(sub) - 1) = sub

RECURSIVE Find(_, _, _)
\* The first index >= i at which sub occurs in s, 0 when there is none.
Find(s, sub, i) ==
    IF i + Len(sub) - 1 > Len(s) THEN 0
    ELSE IF StartsAt(s, sub, i) THEN i
    ELSE Find(s, sub, i + 1)

\* sub in s
Contains(s, sub) == Find(s, sub, 1) # 0

\* s.endswith(suffix)
EndsWith(s, suffix) ==
    /\ Len(suffix) <= Len(s)
    /\ SubSeq(s, Len(s) - Len(suffix) + 1, Len(s)) = suffix

\* s.split(sep)[0]
SplitFirst(s, sep) ==
    LET k == Find(s, sep, 1)
    IN  IF k = 0 THEN s ELSE SubSeq(s, 1, k - 1)

RECURSIVE Replace(_, _, _)
\* s.replace(old, new): every non-overlapping occurrence, left to right.
Replace(s, old, new) ==
    LET k == Find(s, old, 1)
    IN  IF k = 0 THEN s
        ELSE SubSeq(s, 1, k - 1) \o new
                 \o Replace(SubSeq(s, k + Len(old), Len(s)), old, new)

RECURSIVE LStrip(_, _)
LStrip(s, chars) ==
    IF s # <<>> /\ Head(s) \in chars THEN LStrip(Tail(s), chars) ELSE s

RECURSIVE RStrip(_, _)
RStrip(s, chars) ==
    IF s # <<>> /\ s[Len(s)] \in chars
    THEN RStrip(SubSeq(s, 1, Len(s) - 1), chars)
    ELSE s

\* s.strip(chars)
Strip(s, chars) == RStrip(LStrip(s, chars), chars)

Whitespace == {" ", "\n", "\t"}

RECURSIVE Digits(_)
\* str(n) of a natural number.
Digits(n) ==
    LET d == <<"0", "1", "2", "3", "4", "5", "6", "7", "8", "9">>
    IN  IF n < 10 THEN <<d[n + 1]>> ELSE Digits(n \div 10) \o <<d[(n % 10) + 1]>>

RECURSIVE Concat(_)
\* "".join(texts)
Concat(texts) ==
    IF texts = <<>> THEN <<>> ELSE Head(texts) \o Concat(Tail(texts))

(* ------------------------- get_content_length ------------------------- *)

\* `key in response`: requests.Response defines __iter__ (over the body in
\* chunks of bytes) and no __contains__, so the test walks the body chunks.
InResponse(key, response) ==
    \E k \in 1..Len(response.chunks) : response.chunks[k] = key

\* Fault variant: the size the response advertises, as a number.
get_content_length_advertised(head) ==
    IF head.raises THEN PyInt(0)
    ELSE IF ~head.hasLength THEN PyNone
    ELSE PyInt(head.length)

get_content_length(head) ==
    IF head.raises THEN PyInt(0)
    ELSE IF ~InResponse(Str(ContentLengthKey), head) THEN PyNone
    ELSE PyStr(head.length)

(* ------------------------- scrape_blog_writeup ------------------------ *)

Return(content) == [raised |-> FALSE, exc |-> "none", v |-> content]

Raise(e) == [raised |-> TRUE, exc |-> e, v |-> <<>>]

\* url.split("#")[0]
StripFragment(url) == SplitFirst(url, <<"#">>)

\* content_length == 0 or content_length > 2 ** 21: "skip", "pass", or the
\* TypeError of ordering a None or a str against an int.
SizeGuard(content_length) ==
    IF content_length.t = "int" /\ content_length.v = 0 THEN "skip"
    ELSE IF content_length.t # "int" THEN "TypeError"
    ELSE IF content_length.v > SizeCeiling THEN "skip"
    ELSE "pass"

RewriteGist(url) == Strip(url, {"/"}) \o RawSuffix

RECURSIVE FirstMarkdown(_)
\* The first listing entry that ends in .md, None when there is none.
FirstMarkdown(listing) ==
    IF listing = <<>> THEN None
    ELSE IF EndsWith(Head(listing), MdSuffix) THEN Some(Head(listing))
    ELSE FirstMarkdown(Tail(listing))

\* The filename looked up on the repository page: the readme link's text,
\* else the first markdown entry of the listing, else None.
ResolveFilename(page) ==
    IF ~page.readme.none THEN page.readme ELSE FirstMarkdown(page.listing)

\* f"{url.replace('tree', 'blob').strip('/')}/{filename}"
AppendFilename(url, filename) ==
    Strip(Replace(url, TreeSeg, BlobSeg), {"/"}) \o <<"/">>
        \o (IF filename.none THEN NoneText ELSE filename.v)

\* url.replace("github.com", "raw.githubusercontent.com").replace("/blob", "/")
RawContentLink(url) ==
    Replace(Replace(url, RepoHost, RawHost), SlashBlob, <<"/">>)

\* Lines 106-130: the URL the body is fetched from, or the exception of the
\* repository page fetch.
NormalizeLink(url, aux) ==
    IF Contains(url, GistHost) THEN Return(RewriteGist(url))
    ELSE IF Contains(url, RepoHost) THEN
        IF ~EndsWith(url, MdSuffix) THEN
            IF aux.raises THEN Raise("RequestException")
            ELSE Return(RawContentLink(
                     AppendFilename(url, ResolveFilename(aux))))
        ELSE Return(RawContentLink(url))
    ELSE Return(url)

\* parser.text.strip() once every element with a data: src is decomposed.
ExtractText(elements) ==
    LET kept == SelectSeq(elements, LAMBDA e : ~(e.hasSrc /\ e.dataSrc))
    IN  Strip(Concat([k \in 1..Len(kept) |-> kept[k].text]), Whitespace)

\* Lines 132-152.
FetchBody(body) ==
    IF body.kind = "ConnectTimeout" THEN Return(<<>>)
    ELSE IF body.kind = "ConnectionError" THEN Return(<<>>)
    ELSE IF body.kind # "response" THEN Raise(body.kind)
    ELSE IF body.status = 200 THEN Return(ExtractText(body.elements))
    ELSE Return(<<>>)

scrape_blog_writeup(url, env) ==
    LET stripped == StripFragment(url)
        guard    == SizeGuard(get_content_length(env.head))
        target   == NormalizeLink(stripped, env.aux)
    IN  IF guard = "skip" THEN Return(<<>>)
        ELSE IF guard = "TypeError" THEN Raise("TypeError")
        ELSE IF target.raised THEN target
        ELSE FetchBody(env.body)
(* ------------------------- scrape_writeup_info ------------------------ *)

ctftime(writeup_id) == CTFTIME_URL \o WriteupPath \o Digits(writeup_id)

RECURSIVE JoinSpace(_)
\* " ".join(texts)
JoinSpace(texts) ==
    IF texts = <<>> THEN <<>>
    ELSE IF Len(texts) = 1 THEN Head(texts)
    ELSE Head(texts) \o <<" ">> \o JoinSpace(Tail(texts))

\* The document returned for a 404.
DeletedWriteup(writeup_id) ==
    [id |-> writeup_id, ctf |-> <<>>, name |-> <<>>, tags |-> <<>>,
     author |-> <<>>, team |-> <<>>, rating |-> [t |-> "str", s |-> <<>>],
     ctftime |-> ctftime(writeup_id), url |-> <<>>,
     ctftime_content |-> <<>>, blog_content |-> <<>>]

\* select_one(...).text on a page that lacks one of these raises.
MarkupMissing(page) ==
    page.ctf.none \/ page.name.none \/ page.author.none \/ page.rating.none

\* element[-1]["href"] if element and "href" in element[-1].attrs else ""
BlogUrl(page) ==
    IF page.well # <<>> /\ ~page.well[Len(page.well)].href.none
    THEN page.well[Len(page.well)].href.v
    ELSE <<>>

\* The description's text once anchors are replaced by their children and
\* br elements by a newline.
Description(page) ==
    IF page.desc.none THEN <<>>
    ELSE LET nodes == page.desc.v
         IN  Strip(Concat([k \in 1..Len(nodes) |->
                     IF nodes[k].k = "br" THEN <<"\n">> ELSE nodes[k].text]),
                   Whitespace)

\* Fault variant: the handler empties the content and keeps the URL.
BlogStepKeepUrl(blog_url, env) ==
    IF blog_url = <<>> THEN [url |-> <<>>, content |-> <<>>, raised |-> FALSE]
    ELSE LET r == scrape_blog_writeup(blog_url, env)
         IN  IF r.raised
             THEN [url |-> blog_url, content |-> <<>>, raised |-> TRUE]
             ELSE [url |-> blog_url, content |-> r.v, raised |-> FALSE]

\* Lines 230-236: the blog is scraped under try/except Exception.
BlogStep(blog_url, env) ==
    IF blog_url = <<>> THEN [url |-> <<>>, content |-> <<>>, raised |-> FALSE]
    ELSE LET r == scrape_blog_writeup(blog_url, env)
         IN  IF r.raised
             THEN [url |-> <<>>, content |-> <<>>, raised |-> TRUE]
             ELSE [url |-> blog_url, content |-> r.v, raised |-> FALSE]

\* Lines 187-250: the document of a page that was fetched with status 200.
FoundWriteup(writeup_id, page, env) ==
    LET author  == Strip(page.author.v, Whitespace)
        team    == IF page.team.none THEN <<>>
                   ELSE Strip(page.team.v, Whitespace)
        rating  == Strip(page.rating.v, Whitespace)
        blog    == BlogStep(BlogUrl(page), env)
    IN  [id |-> writeup_id,
         ctf |-> Strip(page.ctf.v, Whitespace),
         name |-> Strip(page.name.v, Whitespace),
         tags |-> JoinSpace(page.tags),
         author |-> IF team # <<>> THEN author ELSE <<>>,
         team |-> IF team # <<>> THEN team ELSE author,
         rating |-> [t |-> "float",
                     s |-> IF rating # <<>> THEN rating ELSE <<"0", ".", "0">>],
         ctftime |-> ctftime(writeup_id),
         url |-> blog.url,
         ctftime_content |-> Description(page),
         blog_content |-> blog.content]

Result(writeup, code) ==
    [raised |-> FALSE, exc |-> "none", writeup |-> writeup, code |-> code]

Raised(e) == [raised |-> TRUE, exc |-> e, writeup |-> None, code |-> 0]

\* Fault variant: every status but 200 is taken for a deleted write-up.
scrape_writeup_info_all_deleted(writeup_id, detail, env) ==
    IF detail.kind # "response" THEN Raised(detail.kind)
    ELSE IF detail.status # 200
    THEN Result(Some(DeletedWriteup(writeup_id)), 404)
    ELSE IF MarkupMissing(detail.page) THEN Raised("AttributeError")
    ELSE Result(Some(FoundWriteup(writeup_id, detail.page, env)), 200)

scrape_writeup_info(writeup_id, detail, env) ==
    IF detail.kind # "response" THEN Raised(detail.kind)
    ELSE IF detail.status = 404
    THEN Result(Some(DeletedWriteup(writeup_id)), 404)
    ELSE IF detail.status # 200 THEN Result(None, detail.status)
    ELSE IF MarkupMissing(detail.page) THEN Raised("AttributeError")
    ELSE Result(Some(FoundWriteup(writeup_id, detail.page, env)), 200)

(* ------------------------------ __main__ ------------------------------ *)

Unset == [t |-> "unset", v |-> 0]

\* Lines 49-65: None for a status other than 200; the fetch and the parse
\* are under no try.
get_latest_writeup_id(home) ==
    IF home.kind # "response" THEN [raised |-> TRUE, exc |-> home.kind, v |-> Unset]
    ELSE IF home.status # 200 THEN [raised |-> FALSE, exc |-> "none", v |-> PyNone]
    ELSE IF home.latest.none
    THEN [raised |-> TRUE, exc |-> "TypeError", v |-> Unset]
    ELSE [raised |-> FALSE, exc |-> "none", v |-> PyInt(home.latest.v)]

\* Lines 275-280.
Crawled(documents) == [k \in 1..Len(documents) |-> documents[k].id]

InList(x, list) == \E k \in 1..Len(list) : list[k] = x

\* Fault variant: the whole range, whatever was crawled.
MissingWholeRange(latest_writeup_id, crawled) ==
    [k \in 1..latest_writeup_id |-> k]

\* Fault variant: range(1, latest_writeup_id), the latest identifier left out.
MissingExclusive(latest_writeup_id, crawled) ==
    SelectSeq([k \in 1..(latest_writeup_id - 1) |-> k],
              LAMBDA writeup_id : ~InList(writeup_id, crawled))

\* Lines 281-285.
Missing(latest_writeup_id, crawled) ==
    SelectSeq([k \in 1..latest_writeup_id |-> k],
              LAMBDA writeup_id : ~InList(writeup_id, crawled))

\* Fault variant: a deleted write-up is not inserted.
PersistFoundOnly(documents, writeup, code) ==
    IF code = 200 THEN Append(documents, writeup.v) ELSE documents

\* Lines 300-308: insert_one on 200 and on 404.
Persist(documents, writeup, code) ==
    IF code = 200 THEN Append(documents, writeup.v)
    ELSE IF code = 404 THEN Append(documents, writeup.v)
    ELSE documents
(* --------------------------- the environment -------------------------- *)

NoRepoPage == [raises |-> TRUE, readme |-> None, listing |-> <<>>]

NoBody == [kind |-> "ConnectionError", status |-> 0, elements |-> <<>>]

NoHead == [raises |-> TRUE, hasLength |-> FALSE, length |-> 0, chunks |-> <<>>]

\* What a HEAD request to a blog host can give.
Heads ==
    { NoHead,
      [raises |-> FALSE, hasLength |-> FALSE, length |-> 0, chunks |-> <<>>],
      [raises |-> FALSE, hasLength |-> TRUE,  length |-> 100, chunks |-> <<>>],
      [raises |-> FALSE, hasLength |-> TRUE,  length |-> SizeCeiling + 1,
       chunks |-> <<>>] }

\* What the GET of a repository page can give.
RepoPages ==
    { NoRepoPage,
      [raises |-> FALSE, readme |-> Some(ReadmeName), listing |-> <<ScriptName>>],
      [raises |-> FALSE, readme |-> None, listing |-> <<ScriptName, NotesName>>],
      [raises |-> FALSE, readme |-> None, listing |-> <<ScriptName>>],
      [raises |-> FALSE, readme |-> None, listing |-> <<>>] }

BlogElements ==
    << [hasSrc |-> FALSE, dataSrc |-> FALSE, text |-> <<" ", "w", "u">>],
       [hasSrc |-> TRUE,  dataSrc |-> TRUE,  text |-> <<"i", "m", "g">>],
       [hasSrc |-> TRUE,  dataSrc |-> FALSE, text |-> <<"!", "\n">>] >>

\* What the GET of the blog body can give.
Bodies ==
    { [kind |-> "ConnectTimeout", status |-> 0, elements |-> <<>>],
      NoBody,
      [kind |-> "ReadTimeout", status |-> 0, elements |-> <<>>],
      [kind |-> "response", status |-> 200, elements |-> BlogElements],
      [kind |-> "response", status |-> 404, elements |-> <<>>] }

\* The outcomes of the fetches that scraping blog_url makes: the HEAD
\* always, the repository page and the body only past the size guard.  A
\* fetch that is not made has no outcome to draw.
BlogEnvs(blog_url) ==
    IF blog_url = <<>>
    THEN {[head |-> NoHead, aux |-> NoRepoPage, body |-> NoBody]}
    ELSE UNION { IF SizeGuard(get_content_length(head)) = "pass"
                 THEN [head : {head}, aux : RepoPages, body : Bodies]
                 ELSE {[head |-> head, aux |-> NoRepoPage, body |-> NoBody]} :
                 head \in Heads }

PageTeam ==
    [ctf |-> Some(<<"h", "x">>), name |-> Some(<<"p", "w", "n", " ">>),
     author |-> Some(<<"a", "l">>), team |-> Some(<<"t", "1">>),
     tags |-> <<<<"p", "w", "n">>, <<"r", "o", "p">>>>,
     rating |-> Some(<<"4", ".", "5">>),
     well |-> <<[href |-> Some(UrlBlog)], [href |-> Some(UrlRepo)]>>,
     desc |-> Some(<<[k |-> "text", text |-> <<"S", "e", "e", " ">>],
                     [k |-> "a", text |-> <<"i", "t">>],
                     [k |-> "br", text |-> <<>>],
                     [k |-> "text", text |-> <<"!", " ">>]>>)]

PageSolo ==
    [ctf |-> Some(<<"h", "x">>), name |-> Some(<<"r", "e", "v">>),
     author |-> Some(<<"b", "o">>), team |-> None,
     tags |-> <<>>, rating |-> Some(<<>>),
     well |-> <<[href |-> Some(UrlBlog)], [href |-> None]>>,
     desc |-> None]

PageBroken ==
    [ctf |-> Some(<<"h", "x">>), name |-> Some(<<>>),
     author |-> None, team |-> None,
     tags |-> <<>>, rating |-> Some(<<>>),
     well |-> <<>>, desc |-> None]

Pages == {PageTeam, PageSolo, PageBroken}

\* What the GET of a detail page can give.
Details ==
    { [kind |-> "ConnectionError", status |-> 0, page |-> PageBroken],
      [kind |-> "response", status |-> 404, page |-> PageBroken],
      [kind |-> "response", status |-> 503, page |-> PageBroken] }
    \cup { [kind |-> "response", status |-> 200, page |-> p] : p \in Pages }

\* What the GET of the landing page can give.
Homes ==
    { [kind |-> "ConnectionError", status |-> 0, latest |-> None],
      [kind |-> "response", status |-> 503, latest |-> None],
      [kind |-> "response", status |-> 200, latest |-> None] }
    \cup { [kind |-> "response", status |-> 200, latest |-> Some(n)] :
               n \in 1..MaxId }

(* ------------------------------ the spider ---------------------------- *)

NoCall ==
    [valid |-> FALSE, id |-> 0, hadRecord |-> FALSE, status |-> 0,
     pageUrl |-> <<>>, head |-> NoHead,
     raised |-> FALSE, blogRaised |-> FALSE, code |-> 0]

NoRun == [valid |-> FALSE, latest |-> Unset, done |-> FALSE, failed |-> {},
          clean |-> FALSE, stored |-> 0]

Init ==
    /\ pc = "idle"
    /\ exc = "none"
    /\ indexed = FALSE
    /\ store = <<>>
    /\ latest = Unset
    /\ missing = <<>>
    /\ idx = 0
    /\ run = 0
    /\ calls = <<>>
    /\ last = NoCall
    /\ failed = {}
    /\ prev = NoRun
    /\ gapStore = {}
    /\ nIn = <<>>
    /\ nUrl = <<>>
    /\ nPage = NoRepoPage
    /\ nPc = "off"

\* Every identifier of the gap was resolved as found or deleted.
CleanRun ==
    /\ pc = "done"
    /\ failed = {}

\* Lines 254-269: the process starts; the index is created with the
\* database.  The summary of the run that ended is kept as history.
Connect ==
    /\ pc \in {"idle", "done", "crashed"}
    /\ run < MaxRuns
    /\ pc' = "discover"
    /\ exc' = "none"
    /\ indexed' = TRUE
    /\ run' = run + 1
    /\ latest' = Unset
    /\ missing' = <<>>
    /\ idx' = 0
    /\ calls' = <<>>
    /\ last' = NoCall
    /\ failed' = {}
    /\ gapStore' = {}
    /\ prev' = IF pc = "idle" THEN NoRun
               ELSE [valid |-> TRUE, latest |-> latest, done |-> pc = "done",
                     failed |-> failed, clean |-> CleanRun,
                     stored |-> Len(store)]
    /\ UNCHANGED <<store, nIn, nUrl, nPage, nPc>>

\* Line 272.
Discover ==
    /\ pc = "discover"
    /\ \E home \in Homes :
         LET r == get_latest_writeup_id(home)
         IN  /\ latest' = r.v
             /\ pc' = IF r.raised THEN "crashed" ELSE "gap"
             /\ exc' = r.exc
    /\ UNCHANGED <<indexed, store, missing, idx, run, calls, last, failed,
                   prev, gapStore, nIn, nUrl, nPage, nPc>>

\* Lines 274-291: latest_writeup_id + 1 raises TypeError on None.
ComputeGap ==
    /\ pc = "gap"
    /\ IF latest.t # "int"
       THEN /\ pc' = "crashed"
            /\ exc' = "TypeError"
            /\ UNCHANGED <<missing, gapStore>>
       ELSE /\ pc' = "crawl"
            /\ missing' = Missing(latest.v, Crawled(store))
            /\ gapStore' = {store[k].id : k \in 1..Len(store)}
            /\ UNCHANGED exc
    /\ UNCHANGED <<indexed, store, latest, idx, run, calls, last, failed,
                   prev, nIn, nUrl, nPage, nPc>>

\* Lines 293-308: one iteration of the loop.
Crawl ==
    /\ pc = "crawl"
    /\ idx < Len(missing)
    /\ \E detail \in Details :
       \E env \in BlogEnvs(IF detail.kind = "response" /\ detail.status = 200
                               /\ ~MarkupMissing(detail.page)
                            THEN BlogUrl(detail.page) ELSE <<>>) :
         LET writeup_id == missing[idx + 1]
             r == scrape_writeup_info(writeup_id, detail, env)
             onPage == detail.kind = "response" /\ detail.status = 200
                       /\ ~MarkupMissing(detail.page)
         IN  /\ calls' = Append(calls, writeup_id)
             /\ last' = [valid |-> TRUE, id |-> writeup_id,
                         hadRecord |-> InList(writeup_id, Crawled(store)),
                         status |-> detail.status,
                         pageUrl |-> IF onPage THEN BlogUrl(detail.page)
                                     ELSE <<>>,
                         head |-> IF onPage /\ BlogUrl(detail.page) # <<>>
                                  THEN env.head ELSE NoCall.head,
                         raised |-> r.raised,
                         blogRaised |-> onPage /\
                             BlogStep(BlogUrl(detail.page), env).raised,
                         code |-> r.code]
             /\ IF r.raised
                THEN /\ pc' = "crashed"
                     /\ exc' = r.exc
                     /\ UNCHANGED <<store, idx, failed>>
                ELSE /\ store' = Persist(store, r.writeup, r.code)
                     /\ idx' = idx + 1
                     /\ failed' = IF detail.status \in {200, 404} THEN failed
                                  ELSE failed \cup {writeup_id}
                     /\ UNCHANGED <<pc, exc>>
    /\ UNCHANGED <<indexed, latest, missing, run, prev, gapStore,
                   nIn, nUrl, nPage, nPc>>

\* The loop is exhausted and the process ends.
Finish ==
    /\ pc = "crawl"
    /\ idx = Len(missing)
    /\ pc' = "done"
    /\ UNCHANGED <<exc, indexed, store, latest, missing, idx, run, calls,
                   last, failed, prev, gapStore, nIn, nUrl, nPage, nPc>>

Next == Connect \/ Discover \/ ComputeGap \/ Crawl \/ Finish

Spec == Init /\ [][Next]_vars

(* ----------------------- link normalisation alone --------------------- *)

UrlGistFragment ==
    <<"h","t","t","p","s",":","/","/","g","i","s","t",".","g","i","t","h","u","b",".","c","o","m","/","u","/","a","b","c","1","2","3","#","f","i","l","e","-","w","-","m","d">>

UrlRepoSlash ==
    <<"h","t","t","p","s",":","/","/","g","i","t","h","u","b",".","c","o","m","/","u","/","r","e","p","o","/","#","r","e","a","d","m","e">>

UrlRepoDir ==
    <<"h","t","t","p","s",":","/","/","g","i","t","h","u","b",".","c","o","m","/","u","/","r","e","p","o","/","t","r","e","e","/","m","a","i","n","/","p","w","n","/">>

UrlStreet ==
    <<"h","t","t","p","s",":","/","/","b",".","i","o","/","s","t","r","e","e","t","/">>

\* Blog URLs of the kinds the rewriting tells apart.
BlogUrls ==
    {UrlBlog, UrlGist, UrlGistFragment, UrlRepo, UrlRepoMd, UrlRepoSlash,
     UrlRepoDir, UrlStreet}

NInit ==
    /\ pc = "idle"
    /\ exc = "none"
    /\ indexed = FALSE
    /\ store = <<>>
    /\ latest = Unset
    /\ missing = <<>>
    /\ idx = 0
    /\ run = 0
    /\ calls = <<>>
    /\ last = NoCall
    /\ failed = {}
    /\ prev = NoRun
    /\ gapStore = {}
    /\ nIn \in BlogUrls
    /\ nUrl = nIn
    /\ nPage \in RepoPages
    /\ nPc = "start"

\* Line 96.
NStrip ==
    /\ nPc = "start"
    /\ nUrl' = StripFragment(nUrl)
    /\ nPc' = "stripped"
    /\ UNCHANGED <<svars, nIn, nPage>>

\* Lines 108-109.
NGist ==
    /\ nPc = "stripped"
    /\ Contains(nUrl, GistHost)
    /\ nUrl' = RewriteGist(nUrl)
    /\ nPc' = "done"
    /\ UNCHANGED <<svars, nIn, nPage>>

\* Lines 110-126: the filename is looked up and appended.
NRepoFile ==
    /\ nPc = "stripped"
    /\ ~Contains(nUrl, GistHost)
    /\ Contains(nUrl, RepoHost)
    /\ ~EndsWith(nUrl, MdSuffix)
    /\ IF nPage.raises
       THEN /\ nPc' = "raised"
            /\ UNCHANGED nUrl
       ELSE /\ nPc' = "named"
            /\ nUrl' = AppendFilename(nUrl, ResolveFilename(nPage))
    /\ UNCHANGED <<svars, nIn, nPage>>

\* Lines 127-130.
NRepoRaw ==
    /\ \/ nPc = "named"
       \/ /\ nPc = "stripped"
          /\ ~Contains(nUrl, GistHost)
          /\ Contains(nUrl, RepoHost)
          /\ EndsWith(nUrl, MdSuffix)
    /\ nUrl' = RawContentLink(nUrl)
    /\ nPc' = "done"
    /\ UNCHANGED <<svars, nIn, nPage>>

\* Any other host: the URL is fetched as it is.
NGeneric ==
    /\ nPc = "stripped"
    /\ ~Contains(nUrl, GistHost)
    /\ ~Contains(nUrl, RepoHost)
    /\ nPc' = "done"
    /\ UNCHANGED <<svars, nIn, nUrl, nPage>>

NNext == NStrip \/ NGist \/ NRepoFile \/ NRepoRaw \/ NGeneric

SpecNormalize == NInit /\ [][NNext]_vars

\* The steps above compose to NormalizeLink, the form scrape_blog_writeup uses.
StepsAreNormalizeLink ==
    LET r == NormalizeLink(StripFragment(nIn), nPage)
    IN  /\ nPc = "done" => ~r.raised /\ r.v = nUrl
        /\ nPc = "raised" => r.raised

(* ------------------------------ properties ---------------------------- *)

Ids(documents) == {documents[k].id : k \in 1..Len(documents)}

LastDoc == store[Len(store)]

Ended == pc \in {"done", "crashed"}

\* The gap of this run has been computed.
GapComputed == pc \in {"crawl", "done", "crashed"} /\ latest.t = "int"

StoredAtStart == IF prev.valid THEN prev.stored ELSE 0

\* The last call found a page that carries an external blog URL.
BlogOnPage == last.valid /\ last.pageUrl # <<>>

\* C1: a failure while resolving one identifier never aborts the run: when
\* the process has ended, every identifier of the gap was given to the
\* resolver.
C1_FailureNeverAborts ==
    (Ended /\ latest.t = "int") => calls = missing

\* C2: when the landing page answers with a status other than 200, the
\* process ends normally, with no identifier resolved and no record
\* persisted.
C2_DiscoveryFailureEndsNormally ==
    (Ended /\ latest = PyNone) =>
        /\ pc = "done"
        /\ calls = <<>>
        /\ Len(store) = StoredAtStart

\* C3: an identifier that has a record is never fetched again: it is in no
\* later gap, the resolver is never called for it, and the store never holds
\* two records with one identifier.
C3_PersistedNeverRefetched ==
    /\ \A j, k \in 1..Len(store) : store[j].id = store[k].id => j = k
    /\ last.valid => ~last.hadRecord
    /\ GapComputed => \A k \in 1..Len(missing) : missing[k] \notin gapStore
    /\ pc = "crawl" =>
           \A k \in (idx + 1)..Len(missing) : missing[k] \notin Ids(store)

C3_Witness ==
    /\ run = 2
    /\ pc = "done"
    /\ calls # <<>>
    /\ \E j, k \in 1..Len(store) :
           /\ {store[j].id, store[k].id} \subseteq gapStore
           /\ store[j].rating.t = "str"
           /\ store[k].rating.t = "float"

\* C4: an identifier the origin answered neither 200 nor 404 for gets no
\* record in that run, and is in the gap of the next run whenever it is at
\* most the latest identifier that run discovers.
C4_FailedRevisited ==
    /\ \A i \in failed : i \notin Ids(store)
    /\ (GapComputed /\ prev.valid) =>
           \A i \in prev.failed : i <= latest.v => InList(i, missing)

C4_Witness ==
    /\ run = 2
    /\ GapComputed
    /\ \E i \in prev.failed : i <= latest.v /\ InList(i, calls)
    /\ \E i \in prev.failed : i > latest.v

\* C5: the gap is exactly {1..L} \ P in ascending order without repeats, and
\* its identifiers are resolved in that order.
C5_GapCorrect ==
    GapComputed =>
        /\ {missing[k] : k \in 1..Len(missing)} = (1..latest.v) \ gapStore
        /\ \A j, k \in 1..Len(missing) : j < k => missing[j] < missing[k]
        /\ Len(calls) <= Len(missing)
        /\ calls = SubSeq(missing, 1, Len(calls))
        /\ Len(calls) = IF pc = "crashed" THEN idx + 1 ELSE idx

C5_Witness ==
    /\ pc = "done"
    /\ gapStore = {2}
    /\ calls = <<1, 3>>

ProbedAboveCeiling ==
    /\ BlogOnPage
    /\ ~last.head.raises
    /\ last.head.hasLength
    /\ last.head.length > SizeCeiling

\* C8: a blog URL whose advertised size is above 2 MiB gives a found record
\* with an empty url and empty blog content.
C8_SizeGuard ==
    ProbedAboveCeiling =>
        /\ last.code = 200
        /\ LastDoc.id = last.id
        /\ LastDoc.url = <<>>
        /\ LastDoc.blog_content = <<>>

C8_Witness ==
    /\ ProbedAboveCeiling
    /\ LastDoc.id = last.id
    /\ LastDoc.team # <<>>

\* C9: https://github.com/u/repo/tree/main, with README.md as the readme the
\* page names, is rewritten to
\* https://raw.githubusercontent.com/u/repo/main/README.md.
C9_RepoRewrite ==
    (nPc = "done" /\ nIn = UrlRepo /\ nPage.readme = Some(ReadmeName)) =>
        nUrl = UrlRepoRaw

\* C10: when the HEAD response advertises no size, the blog is not rejected:
\* the found record keeps the external blog URL.
C10_UnknownSizePermissive ==
    (BlogOnPage /\ ~last.head.raises /\ ~last.head.hasLength
        /\ last.code = 200) =>
        LastDoc.url = last.pageUrl

====
